---- MODULE Spec2Model ----
(***************************************************************************)
(* Cart / inventory / purchase pipeline of the e-commerce backend.        *)
(*                                                                         *)
(* The persistent state is the three collections the core touches         *)
(* (products, carts, tickets).  The repository and DAO methods are        *)
(* operators from a database value to a database value plus an outcome;   *)
(* the HTTP handlers of routes/carts.js are the actions, each one a whole *)
(* request run to completion.                                              *)
(*                                                                         *)
(* Scope: catalog management appears only as the admin PUT that edits a   *)
(* product's stock and price; product creation and deletion, user CRUD,   *)
(* views and e-mail are left out.  Quantities are integers.               *)
(***************************************************************************)
EXTENDS Integers, Sequences, FiniteSets, TLC

(***************************************************************************)
(* Bounds of the model                                                     *)
(***************************************************************************)
MaxStock == 2      \* largest stock a product starts with / an admin sets
MaxPrice == 2      \* largest unit price
MaxCarts == 2      \* carts ever created
MaxEdits == 1      \* admin product edits
MaxTickets == 1    \* tickets ever created
ScenarioStock == 5 \* stock of the product of the worked scenarios
ScenarioPrice == 10 \* its price
MaxCalls == 2      \* cart requests in flight at the same time
MaxCreators == 2   \* ticket creations in flight at the same time
MaxCodes == 3      \* distinct codes the ticket code generator can draw

Users == {"u1", "u2"}
Products == {"p1", "p2"}
MissingProduct == "px"                 \* an id that resolves to no product
ProductIds == Products \cup {MissingProduct}
Quantities == 0 .. MaxStock            \* request payloads, 0 is rejected
TicketCodes == 1 .. MaxTickets         \* candidates generateUniqueCode draws

NoError == "none"

(***************************************************************************)
(* Users: the e-mail a user registered with and the one the schema stores *)
(***************************************************************************)
RegisteredEmail == [u \in Users |-> IF u = "u1" THEN "Ana@Shop.com" ELSE "beto@shop.com"]

\* String.prototype.toLowerCase on the e-mails of the model
ToLowerCase(e) == IF e = "Ana@Shop.com" THEN "ana@shop.com" ELSE e

\* userSchema.email (lowercase: true): the e-mail req.user carries
UserEmail(u) == ToLowerCase(RegisteredEmail[u])

InitialStock == [p \in Products |-> IF p = "p1" THEN MaxStock ELSE MaxStock - 1]
InitialPrice == [p \in Products |-> IF p = "p1" THEN MaxPrice ELSE MaxPrice - 1]

VARIABLES
    stock,     \* product id -> Product.stock
    price,     \* product id -> Product.price
    carts,     \* sequence of Cart documents; a cart's id is its index
    tickets,   \* set of Ticket documents
    edits,     \* number of admin product edits so far
    last,      \* the last request and the response it got
    calls,     \* cart requests in flight: position and local variables
    creators   \* ticket creations in flight: position and local variables

vars == <<stock, price, carts, tickets, edits, last, calls, creators>>

Calls == 1 .. MaxCalls
Creators == 1 .. MaxCreators

\* A request slot before any request has arrived on it
IdleCall ==
    [op |-> "none", user |-> "none", product |-> "none", quantity |-> 0,
     pc |-> "idle", cart |-> 0, loaded |-> <<>>, price |-> 0, seen |-> 0,
     error |-> NoError]

\* A ticket creation slot before TicketRepository.create is called on it
IdleCreator == [pc |-> "idle", code |-> 0, amount |-> 0, purchaser |-> "none", cart |-> 0]

NoCalls == [i \in Calls |-> IdleCall]
NoCreators == [i \in Creators |-> IdleCreator]

(***************************************************************************)
(* Sequence helpers                                                        *)
(***************************************************************************)
Min(S) == CHOOSE x \in S : \A y \in S : x <= y

\* products.find(item => item.product.toString() === productId): index of the
\* first line for the product, 0 when there is none.  The comparison is by
\* product id, on a populated cart as on a plain one.
FindLine(products, productId) ==
    LET S == {i \in 1 .. Len(products) : products[i].product = productId}
    IN  IF S = {} THEN 0 ELSE Min(S)

\* products.reduce((total, item) => total + item.price * item.quantity, 0)
RECURSIVE LinesTotal(_)
LinesTotal(products) ==
    IF products = <<>> THEN 0
    ELSE Head(products).price * Head(products).quantity + LinesTotal(Tail(products))

(***************************************************************************)
(* ProductDAO / ProductRepository                                          *)
(***************************************************************************)
\* hasStock answering for the product's existence only
hasStockUnchecked(stk, id, quantity) == id \in Products

\* ProductRepository.hasStock: product && product.stock >= quantity
hasStock(stk, id, quantity) == id \in Products /\ stk[id] >= quantity

incrementStockDropped(stk, id, quantity) == stk

\* ProductDAO.incrementStock: $inc stock by quantity
incrementStock(stk, id, quantity) ==
    IF id \in Products THEN [stk EXCEPT ![id] = @ + quantity] ELSE stk

\* ProductDAO.decrementStock: $inc stock by -quantity
decrementStock(stk, id, quantity) ==
    IF id \in Products THEN [stk EXCEPT ![id] = @ - quantity] ELSE stk

(***************************************************************************)
(* CartDAO                                                                 *)
(***************************************************************************)
CartIds(cts) == 1 .. Len(cts)

\* The carts of a user that are active
ActiveCartsOf(cts, userId) ==
    {i \in CartIds(cts) : cts[i].user = userId /\ cts[i].status = "active"}

\* CartDAO.findActiveByUser: Cart.findOne({user, status: "active"}), 0 = null
findActiveByUser(cts, userId) ==
    IF ActiveCartsOf(cts, userId) = {} THEN 0 ELSE Min(ActiveCartsOf(cts, userId))

ViolatesNoIndex(cts, id, doc) == FALSE

\* cartSchema.index({user, status}, unique, partial on status = "active"):
\* would writing `doc` as the cart with id `id` break the index?
ViolatesActiveIndex(cts, id, doc) ==
    /\ doc.status = "active"
    /\ \E i \in CartIds(cts) :
          i # id /\ cts[i].user = doc.user /\ cts[i].status = "active"

\* CartDAO.create: new Cart(cartData).save()
createCart(cts, cartData) ==
    LET doc == [user |-> cartData.user, products |-> cartData.products,
                totalPrice |-> 0, status |-> cartData.status]
    IN  IF ViolatesActiveIndex(cts, 0, doc)
        THEN [err |-> "DuplicateActiveCart", carts |-> cts]
        ELSE [err |-> NoError, carts |-> Append(cts, doc)]

\* addProduct that overwrites the price of an existing line with the price
\* passed in
daoAddProductResnapshot(cts, cartId, productId, quantity, unitPrice) ==
    IF cartId \notin CartIds(cts) THEN cts
    ELSE LET cart == cts[cartId]
             i == FindLine(cart.products, productId)
             lines == IF i # 0
                      THEN [cart.products EXCEPT ![i].quantity = @ + quantity,
                                                 ![i].price = unitPrice]
                      ELSE Append(cart.products,
                                  [product |-> productId, quantity |-> quantity,
                                   price |-> unitPrice])
         IN  [cts EXCEPT ![cartId] =
                 [cart EXCEPT !.products = lines, !.totalPrice = LinesTotal(lines)]]

\* CartDAO.addProduct
daoAddProduct(cts, cartId, productId, quantity, unitPrice) ==
    IF cartId \notin CartIds(cts) THEN cts
    ELSE LET cart == cts[cartId]
             i == FindLine(cart.products, productId)
             lines == IF i # 0
                      THEN [cart.products EXCEPT ![i].quantity = @ + quantity]
                      ELSE Append(cart.products,
                                  [product |-> productId, quantity |-> quantity,
                                   price |-> unitPrice])
         IN  [cts EXCEPT ![cartId] =
                 [cart EXCEPT !.products = lines, !.totalPrice = LinesTotal(lines)]]

daoUpdateProductQuantityStaleTotal(cts, cartId, productId, quantity) ==
    IF cartId \notin CartIds(cts) THEN cts
    ELSE LET cart == cts[cartId]
             i == FindLine(cart.products, productId)
         IN  IF i = 0 THEN cts
             ELSE [cts EXCEPT ![cartId].products[i].quantity = quantity]

\* CartDAO.updateProductQuantity
daoUpdateProductQuantity(cts, cartId, productId, quantity) ==
    IF cartId \notin CartIds(cts) THEN cts
    ELSE LET cart == cts[cartId]
             i == FindLine(cart.products, productId)
             lines == [cart.products EXCEPT ![i].quantity = quantity]
         IN  IF i = 0 THEN cts
             ELSE [cts EXCEPT ![cartId] =
                     [cart EXCEPT !.products = lines, !.totalPrice = LinesTotal(lines)]]

\* CartDAO.removeProduct
daoRemoveProduct(cts, cartId, productId) ==
    IF cartId \notin CartIds(cts) THEN cts
    ELSE LET cart == cts[cartId]
             Keep(item) == item.product # productId
             lines == SelectSeq(cart.products, Keep)
         IN  [cts EXCEPT ![cartId] =
                 [cart EXCEPT !.products = lines, !.totalPrice = LinesTotal(lines)]]

\* clearCart that also marks the cart cancelled
daoClearCartCancelled(cts, cartId) ==
    IF cartId \notin CartIds(cts) THEN cts
    ELSE [cts EXCEPT ![cartId] = [@ EXCEPT !.products = <<>>, !.totalPrice = 0,
                                           !.status = "cancelled"]]

\* CartDAO.clearCart: { products: [], totalPrice: 0 }
daoClearCart(cts, cartId) ==
    IF cartId \notin CartIds(cts) THEN cts
    ELSE [cts EXCEPT ![cartId] = [@ EXCEPT !.products = <<>>, !.totalPrice = 0]]

\* CartDAO.updateStatus: findByIdAndUpdate(cartId, {status})
updateStatus(cts, cartId, status) ==
    IF cartId \notin CartIds(cts) THEN [err |-> NoError, carts |-> cts]
    ELSE LET doc == [cts[cartId] EXCEPT !.status = status]
         IN  IF ViolatesActiveIndex(cts, cartId, doc)
             THEN [err |-> "DuplicateActiveCart", carts |-> cts]
             ELSE [err |-> NoError, carts |-> [cts EXCEPT ![cartId] = doc]]

(***************************************************************************)
(* CartRepository: each method is the database after it and its outcome;  *)
(* err is the message of the Error it threw, or NoError.  A method that   *)
(* throws returns the database as it stood at the throw.                  *)
(***************************************************************************)
Outcome(e, stk, cts) == [err |-> e, stock |-> stk, carts |-> cts]

\* addProduct with the stock decremented before the combined-quantity check
addProductEarlyDecrement(stk, prc, cts, userId, productId, quantity) ==
    IF productId \notin Products
    THEN Outcome("Producto no encontrado", stk, cts)
    ELSE IF ~hasStock(stk, productId, quantity)
    THEN Outcome("Stock insuficiente", stk, cts)
    ELSE LET found == findActiveByUser(cts, userId)
             made == IF found = 0
                     THEN createCart(cts, [user |-> userId, products |-> <<>>,
                                           status |-> "active"])
                     ELSE [err |-> NoError, carts |-> cts]
             cartId == IF found = 0 THEN Len(made.carts) ELSE found
             cart == made.carts[cartId]
             i == FindLine(cart.products, productId)
             taken == decrementStock(stk, productId, quantity)
         IN  IF made.err # NoError
             THEN Outcome(made.err, stk, cts)
             ELSE IF i # 0 /\ ~hasStock(stk, productId, cart.products[i].quantity + quantity)
             THEN Outcome("Stock insuficiente para la cantidad total solicitada",
                          taken, made.carts)
             ELSE Outcome(NoError, taken,
                          daoAddProduct(made.carts, cartId, productId, quantity,
                                        prc[productId]))

\* addProduct without the check of the combined quantity of an existing line
addProductNoCombinedCheck(stk, prc, cts, userId, productId, quantity) ==
    IF productId \notin Products
    THEN Outcome("Producto no encontrado", stk, cts)
    ELSE IF ~hasStock(stk, productId, quantity)
    THEN Outcome("Stock insuficiente", stk, cts)
    ELSE LET found == findActiveByUser(cts, userId)
             made == IF found = 0
                     THEN createCart(cts, [user |-> userId, products |-> <<>>,
                                           status |-> "active"])
                     ELSE [err |-> NoError, carts |-> cts]
             cartId == IF found = 0 THEN Len(made.carts) ELSE found
         IN  IF made.err # NoError
             THEN Outcome(made.err, stk, cts)
             ELSE Outcome(NoError,
                          decrementStock(stk, productId, quantity),
                          daoAddProduct(made.carts, cartId, productId, quantity,
                                        prc[productId]))

\* CartRepository.addProduct(userId, productId, quantity)
addProduct(stk, prc, cts, userId, productId, quantity) ==
    IF productId \notin Products
    THEN Outcome("Producto no encontrado", stk, cts)
    ELSE IF ~hasStock(stk, productId, quantity)
    THEN Outcome("Stock insuficiente", stk, cts)
    ELSE LET found == findActiveByUser(cts, userId)
             made == IF found = 0
                     THEN createCart(cts, [user |-> userId, products |-> <<>>,
                                           status |-> "active"])
                     ELSE [err |-> NoError, carts |-> cts]
             cartId == IF found = 0 THEN Len(made.carts) ELSE found
             cart == made.carts[cartId]
             i == FindLine(cart.products, productId)
         IN  IF made.err # NoError
             THEN Outcome(made.err, stk, cts)
             ELSE IF i # 0 /\ ~hasStock(stk, productId, cart.products[i].quantity + quantity)
             THEN Outcome("Stock insuficiente para la cantidad total solicitada",
                          stk, made.carts)
             ELSE Outcome(NoError,
                          decrementStock(stk, productId, quantity),
                          daoAddProduct(made.carts, cartId, productId, quantity,
                                        prc[productId]))

\* updateProductQuantity that gives no stock back when the quantity goes down
updateProductQuantityNoReturn(stk, cts, cartId, productId, newQuantity) ==
    IF cartId \notin CartIds(cts)
    THEN Outcome("Carrito no encontrado", stk, cts)
    ELSE LET i == FindLine(cts[cartId].products, productId)
             difference == newQuantity - cts[cartId].products[i].quantity
         IN  IF i = 0
             THEN Outcome("Producto no encontrado en el carrito", stk, cts)
             ELSE IF difference > 0 /\ ~hasStock(stk, productId, difference)
             THEN Outcome("Stock insuficiente", stk, cts)
             ELSE Outcome(NoError,
                          IF difference > 0
                          THEN decrementStock(stk, productId, difference)
                          ELSE stk,
                          daoUpdateProductQuantity(cts, cartId, productId, newQuantity))

\* CartRepository.updateProductQuantity(cartId, productId, newQuantity)
updateProductQuantity(stk, cts, cartId, productId, newQuantity) ==
    IF cartId \notin CartIds(cts)
    THEN Outcome("Carrito no encontrado", stk, cts)
    ELSE LET i == FindLine(cts[cartId].products, productId)
             difference == newQuantity - cts[cartId].products[i].quantity
         IN  IF i = 0
             THEN Outcome("Producto no encontrado en el carrito", stk, cts)
             ELSE IF difference > 0 /\ ~hasStock(stk, productId, difference)
             THEN Outcome("Stock insuficiente", stk, cts)
             ELSE Outcome(NoError,
                          IF difference > 0
                          THEN decrementStock(stk, productId, difference)
                          ELSE IF difference < 0
                          THEN incrementStock(stk, productId, -difference)
                          ELSE stk,
                          daoUpdateProductQuantity(cts, cartId, productId, newQuantity))

\* removeProduct that gives back one unit whatever the line's quantity
removeProductReturnsOne(stk, cts, cartId, productId) ==
    IF cartId \notin CartIds(cts)
    THEN Outcome("Carrito no encontrado", stk, cts)
    ELSE LET i == FindLine(cts[cartId].products, productId)
         IN  Outcome(NoError,
                     IF i # 0 THEN incrementStock(stk, productId, 1) ELSE stk,
                     daoRemoveProduct(cts, cartId, productId))

\* CartRepository.removeProduct(cartId, productId)
removeProduct(stk, cts, cartId, productId) ==
    IF cartId \notin CartIds(cts)
    THEN Outcome("Carrito no encontrado", stk, cts)
    ELSE LET i == FindLine(cts[cartId].products, productId)
         IN  Outcome(NoError,
                     IF i # 0
                     THEN incrementStock(stk, productId, cts[cartId].products[i].quantity)
                     ELSE stk,
                     daoRemoveProduct(cts, cartId, productId))

\* for (const item of products) incrementStock(item.product, item.quantity)
RECURSIVE ReturnStock(_, _)
ReturnStock(stk, products) ==
    IF products = <<>> THEN stk
    ELSE ReturnStock(incrementStock(stk, Head(products).product, Head(products).quantity),
                     Tail(products))

\* CartRepository.clearCart(cartId)
clearCart(stk, cts, cartId) ==
    IF cartId \notin CartIds(cts)
    THEN Outcome("Carrito no encontrado", stk, cts)
    ELSE Outcome(NoError, ReturnStock(stk, cts[cartId].products), daoClearCart(cts, cartId))

\* productsProcessed.reduce((sum, p) => sum + p.subtotal, 0)
RECURSIVE SumSubtotals(_)
SumSubtotals(processed) ==
    IF processed = <<>> THEN 0
    ELSE Head(processed).subtotal + SumSubtotals(Tail(processed))

PurchaseOutcome(e, stk, cts, processed, notProcessed, amount) ==
    [err |-> e, stock |-> stk, carts |-> cts, productsProcessed |-> processed,
     productsNotProcessed |-> notProcessed, totalAmount |-> amount]

\* product.stock >= item.quantity, the test of the purchase loop
FulfillableStrict(stk, item) == stk[item.product] > item.quantity

Fulfillable(stk, item) == stk[item.product] >= item.quantity

\* productsNotProcessed.length === 0 ? "completed" : "active"
PurchaseStatusAlwaysCompleted(productsNotProcessed) == "completed"

PurchaseStatus(productsNotProcessed) ==
    IF Len(productsNotProcessed) = 0 THEN "completed" ELSE "active"

\* CartRepository.purchase(cartId).  The cart is loaded with its products
\* populated, so product.stock is the stock at the load (stk).
purchase(stk, cts, cartId) ==
    IF cartId \notin CartIds(cts)
    THEN PurchaseOutcome("Carrito no encontrado", stk, cts, <<>>, <<>>, 0)
    ELSE LET cart == cts[cartId]
             HasStock(item) == Fulfillable(stk, item)
             LacksStock(item) == ~Fulfillable(stk, item)
             ok == SelectSeq(cart.products, HasStock)
             ko == SelectSeq(cart.products, LacksStock)
             productsProcessed ==
                 [k \in 1 .. Len(ok) |->
                     [product |-> ok[k].product, quantity |-> ok[k].quantity,
                      price |-> ok[k].price,
                      subtotal |-> ok[k].quantity * ok[k].price]]
             productsNotProcessed ==
                 [k \in 1 .. Len(ko) |->
                     [product |-> ko[k].product,
                      requestedQuantity |-> ko[k].quantity,
                      availableStock |-> stk[ko[k].product]]]
             returned == ReturnStock(stk, ko)
             totalAmount == SumSubtotals(productsProcessed)
             InProcessed(item) ==
                 \E k \in 1 .. Len(productsProcessed) :
                     productsProcessed[k].product = item.product
             \* cart.products = cart.products.filter(...); cart.save()
             saved == IF Len(productsNotProcessed) > 0
                      THEN [cts EXCEPT ![cartId].products =
                               SelectSeq(cart.products, InProcessed)]
                      ELSE cts
             updated == updateStatus(saved, cartId, PurchaseStatus(productsNotProcessed))
         IN  PurchaseOutcome(updated.err, returned, updated.carts,
                             productsProcessed, productsNotProcessed, totalAmount)

(***************************************************************************)
(* Ticket model / TicketRepository                                         *)
(***************************************************************************)
TicketCodesOf(tks) == {tks[i].code : i \in 1 .. Len(tks)}

\* Ticket.generateUniqueCode: the codes the loop can return, the candidates
\* that no existing ticket has
generateUniqueCode(tks) == TicketCodes \ TicketCodesOf(tks)

\* TicketRepository.create(ticketData) with the code drawn for it;
\* ticketSchema.purchaser is lowercased on save
createTicket(tks, code, ticketData) ==
    Append(tks, [code |-> code, amount |-> ticketData.amount,
                 purchaser |-> ToLowerCase(ticketData.purchaser),
                 cart |-> ticketData.cart])

(***************************************************************************)
(* Route handlers of routes/carts.js.  Each is the response code and the  *)
(* database the whole request leaves: the code field of the JSON body on  *)
(* a rejection, INTERNAL_ERROR for the 500 of the catch block (error is   *)
(* error.message), OK on success.  cart is the cart the request acted on, *)
(* 0 when there is none.                                                   *)
(***************************************************************************)
Handled(code, error, cartId, stk, cts) ==
    [code |-> code, error |-> error, cart |-> cartId, stock |-> stk, carts |-> cts]

\* POST /api/carts/products
PostProductsHandler(stk, prc, cts, user, productId, quantity) ==
    LET r == addProduct(stk, prc, cts, user, productId, quantity)
    IN  IF quantity < 1 THEN Handled("INVALID_QUANTITY", NoError, 0, stk, cts)
        ELSE IF productId \notin Products
        THEN Handled("PRODUCT_NOT_FOUND", NoError, 0, stk, cts)
        ELSE IF stk[productId] < quantity
        THEN Handled("INSUFFICIENT_STOCK", NoError, 0, stk, cts)
        ELSE Handled(IF r.err # NoError THEN "INTERNAL_ERROR" ELSE "OK", r.err,
                     findActiveByUser(r.carts, user), r.stock, r.carts)

\* PUT /api/carts/products/:productId
PutProductHandler(stk, cts, user, productId, quantity) ==
    LET cartId == findActiveByUser(cts, user)
        r == updateProductQuantity(stk, cts, cartId, productId, quantity)
    IN  IF quantity < 1 THEN Handled("INVALID_QUANTITY", NoError, 0, stk, cts)
        ELSE IF cartId = 0 THEN Handled("CART_NOT_FOUND", NoError, 0, stk, cts)
        ELSE Handled(IF r.err = NoError THEN "OK"
                     ELSE IF r.err = "Stock insuficiente" THEN "INSUFFICIENT_STOCK"
                     ELSE IF r.err = "Producto no encontrado en el carrito"
                     THEN "PRODUCT_NOT_IN_CART"
                     ELSE "INTERNAL_ERROR",
                     r.err, cartId, r.stock, r.carts)

\* DELETE /api/carts/products/:productId
DeleteProductHandler(stk, cts, user, productId) ==
    LET cartId == findActiveByUser(cts, user)
        r == removeProduct(stk, cts, cartId, productId)
    IN  IF cartId = 0 THEN Handled("CART_NOT_FOUND", NoError, 0, stk, cts)
        ELSE Handled(IF r.err = NoError THEN "OK"
                     ELSE IF r.err = "Producto no encontrado en el carrito"
                     THEN "PRODUCT_NOT_IN_CART"
                     ELSE "INTERNAL_ERROR",
                     r.err, cartId, r.stock, r.carts)

\* DELETE /api/carts
DeleteCartHandler(stk, cts, user) ==
    LET cartId == findActiveByUser(cts, user)
        r == clearCart(stk, cts, cartId)
    IN  IF cartId = 0 THEN Handled("CART_NOT_FOUND", NoError, 0, stk, cts)
        ELSE Handled(IF r.err = NoError THEN "OK" ELSE "INTERNAL_ERROR",
                     r.err, cartId, r.stock, r.carts)

\* The response of POST /:cid/purchase once CartRepository.purchase returned r
PurchaseCodeAlwaysTicket(r) == IF r.err # NoError THEN "INTERNAL_ERROR" ELSE "OK"

PurchaseCode(r) ==
    IF r.err # NoError THEN "INTERNAL_ERROR"
    ELSE IF Len(r.productsProcessed) = 0 THEN "INSUFFICIENT_STOCK"
    ELSE "OK"

\* The purchase handler without its guard on a cart with no products
PostPurchaseHandlerNoEmptyCheck(stk, cts, user, cid) ==
    LET r == purchase(stk, cts, cid)
        Rejected(code) ==
            Handled(code, NoError, cid, stk, cts)
                @@ [productsProcessed |-> <<>>, productsNotProcessed |-> <<>>,
                    totalAmount |-> 0]
    IN  IF cid \notin CartIds(cts) THEN Rejected("CART_NOT_FOUND")
        ELSE IF cts[cid].user # user THEN Rejected("FORBIDDEN")
        ELSE IF cts[cid].status # "active" THEN Rejected("CART_NOT_ACTIVE")
        ELSE Handled(PurchaseCode(r), r.err, cid, r.stock, r.carts)
                @@ [productsProcessed |-> r.productsProcessed,
                    productsNotProcessed |-> r.productsNotProcessed,
                    totalAmount |-> r.totalAmount]

\* The purchase handler without its guard on the cart's status
PostPurchaseHandlerNoStatusCheck(stk, cts, user, cid) ==
    LET r == purchase(stk, cts, cid)
        Rejected(code) ==
            Handled(code, NoError, cid, stk, cts)
                @@ [productsProcessed |-> <<>>, productsNotProcessed |-> <<>>,
                    totalAmount |-> 0]
    IN  IF cid \notin CartIds(cts) THEN Rejected("CART_NOT_FOUND")
        ELSE IF cts[cid].user # user THEN Rejected("FORBIDDEN")
        ELSE IF Len(cts[cid].products) = 0 THEN Rejected("EMPTY_CART")
        ELSE Handled(PurchaseCode(r), r.err, cid, r.stock, r.carts)
                @@ [productsProcessed |-> r.productsProcessed,
                    productsNotProcessed |-> r.productsNotProcessed,
                    totalAmount |-> r.totalAmount]

\* The purchase route without the comparison of cart.user with req.user.id
PostPurchaseHandlerNoOwnerCheck(stk, cts, user, cid) ==
    LET r == purchase(stk, cts, cid)
        Rejected(code) ==
            Handled(code, NoError, cid, stk, cts)
                @@ [productsProcessed |-> <<>>, productsNotProcessed |-> <<>>,
                    totalAmount |-> 0]
    IN  IF cid \notin CartIds(cts) THEN Rejected("CART_NOT_FOUND")
        ELSE IF cts[cid].status # "active" THEN Rejected("CART_NOT_ACTIVE")
        ELSE IF Len(cts[cid].products) = 0 THEN Rejected("EMPTY_CART")
        ELSE Handled(PurchaseCode(r), r.err, cid, r.stock, r.carts)
                @@ [productsProcessed |-> r.productsProcessed,
                    productsNotProcessed |-> r.productsNotProcessed,
                    totalAmount |-> r.totalAmount]

\* POST /api/carts/:cid/purchase, up to the creation of the ticket:
\* ticketData is what TicketRepository.create is called with when code is OK
PostPurchaseHandler(stk, cts, user, cid) ==
    LET r == purchase(stk, cts, cid)
        Rejected(code) ==
            Handled(code, NoError, cid, stk, cts)
                @@ [productsProcessed |-> <<>>, productsNotProcessed |-> <<>>,
                    totalAmount |-> 0]
    IN  IF cid \notin CartIds(cts) THEN Rejected("CART_NOT_FOUND")
        ELSE IF cts[cid].user # user THEN Rejected("FORBIDDEN")
        ELSE IF cts[cid].status # "active" THEN Rejected("CART_NOT_ACTIVE")
        ELSE IF Len(cts[cid].products) = 0 THEN Rejected("EMPTY_CART")
        ELSE Handled(PurchaseCode(r), r.err, cid, r.stock, r.carts)
                @@ [productsProcessed |-> r.productsProcessed,
                    productsNotProcessed |-> r.productsNotProcessed,
                    totalAmount |-> r.totalAmount]

(***************************************************************************)
(* Requests.  A request that is rejected without a write leaves the state *)
(* as it is; any other request is recorded in last with its response.     *)
(***************************************************************************)
Response(op, user, h) ==
    [op |-> op, user |-> user, cart |-> h.cart, code |-> h.code, error |-> h.error,
     productsProcessed |-> <<>>, productsNotProcessed |-> <<>>,
     totalAmount |-> 0, ticket |-> 0]

NoWrite(h) == h.code # "OK" /\ h.stock = stock /\ h.carts = carts

Init ==
    /\ stock = InitialStock
    /\ price = InitialPrice
    /\ carts = <<>>
    /\ tickets = <<>>
    /\ edits = 0
    /\ last = Response("none", "none", Handled("OK", NoError, 0, stock, carts))
    /\ calls = NoCalls
    /\ creators = NoCreators

\* A cart request answered with h
CartRequest(op, user, h) ==
    /\ Len(h.carts) <= MaxCarts
    /\ stock' = h.stock
    /\ carts' = h.carts
    /\ last' = IF NoWrite(h) THEN last ELSE Response(op, user, h)
    /\ UNCHANGED <<price, tickets, edits, calls, creators>>

PostProducts(user, productId, quantity) ==
    CartRequest("addProduct", user,
                PostProductsHandler(stock, price, carts, user, productId, quantity))

PutProduct(user, productId, quantity) ==
    CartRequest("updateProductQuantity", user,
                PutProductHandler(stock, carts, user, productId, quantity))

DeleteProduct(user, productId) ==
    CartRequest("removeProduct", user,
                DeleteProductHandler(stock, carts, user, productId))

DeleteCart(user) ==
    CartRequest("clearCart", user, DeleteCartHandler(stock, carts, user))

PostPurchase(user, cid) ==
    LET h == PostPurchaseHandler(stock, carts, user, cid)
        ticketData == [amount |-> h.totalAmount, purchaser |-> UserEmail(user),
                       cart |-> cid]
        response == [Response("purchase", user, h)
                     EXCEPT !.productsProcessed = h.productsProcessed,
                            !.productsNotProcessed = h.productsNotProcessed,
                            !.totalAmount = h.totalAmount]
    IN  /\ stock' = h.stock
        /\ carts' = h.carts
        /\ IF h.code = "OK"
           THEN /\ Len(tickets) < MaxTickets
                /\ \E c \in generateUniqueCode(tickets) :
                      /\ tickets' = createTicket(tickets, c, ticketData)
                      /\ last' = [response EXCEPT !.ticket = c]
           ELSE /\ tickets' = tickets
                /\ last' = IF NoWrite(h) THEN last ELSE response
        /\ UNCHANGED <<price, edits, calls, creators>>

\* The bodies an admin sends that set one field: a new stock or a new price
FieldUpdates == [stock : 0 .. MaxStock] \cup [price : 0 .. MaxPrice]

\* The bodies an admin sends: a new stock, a new price or both
ProductUpdates == FieldUpdates \cup [stock : 0 .. MaxStock, price : 0 .. MaxPrice]

\* PUT /api/products/:id (admin) with a body that sets stock, price or both;
\* an id of no product is answered PRODUCT_NOT_FOUND and nothing is written
PutAdminProduct(productId, body) ==
    /\ edits < MaxEdits
    /\ IF productId \notin Products
       THEN UNCHANGED vars
       ELSE /\ edits' = edits + 1
            /\ stock' = IF "stock" \in DOMAIN body
                        THEN [stock EXCEPT ![productId] = body.stock] ELSE stock
            /\ price' = IF "price" \in DOMAIN body
                        THEN [price EXCEPT ![productId] = body.price] ELSE price
            /\ last' = Response("updateProduct", "admin",
                                Handled("OK", NoError, 0, stock, carts))
            /\ UNCHANGED <<carts, tickets, calls, creators>>

AddStep == \E u \in Users, p \in ProductIds, q \in Quantities : PostProducts(u, p, q)
UpdateStep == \E u \in Users, p \in ProductIds, q \in Quantities : PutProduct(u, p, q)
RemoveStep == \E u \in Users, p \in ProductIds : DeleteProduct(u, p)
ClearStep == \E u \in Users : DeleteCart(u)
PurchaseStep == \E u \in Users, cid \in 1 .. (Len(carts) + 1) : PostPurchase(u, cid)
AdminStep == \E p \in ProductIds, b \in FieldUpdates : PutAdminProduct(p, b)
CatalogStep == \E p \in ProductIds, b \in ProductUpdates : PutAdminProduct(p, b)

\* Cart requests only: no purchase, no admin edit
CartNext == AddStep \/ UpdateStep \/ RemoveStep \/ ClearStep

CartSpec == Init /\ [][CartNext]_vars

\* Cart requests and admin edits of stock and price, no purchase
CatalogNext == AddStep \/ UpdateStep \/ RemoveStep \/ ClearStep \/ CatalogStep

CatalogSpec == Init /\ [][CatalogNext]_vars

(***************************************************************************)
(* The worked scenarios: one product P with stock ScenarioStock and price *)
(* ScenarioPrice, users without carts, and requests about P only; the     *)
(* admin edit sets P's stock.                                              *)
(***************************************************************************)
ScenarioProduct == "p1"

ScenarioQuantities == 1 .. ScenarioStock

ScenarioInit ==
    /\ stock = [p \in Products |-> IF p = ScenarioProduct THEN ScenarioStock ELSE 0]
    /\ price = [p \in Products |-> IF p = ScenarioProduct THEN ScenarioPrice ELSE 0]
    /\ carts = <<>>
    /\ tickets = <<>>
    /\ edits = 0
    /\ last = Response("none", "none", Handled("OK", NoError, 0, stock, carts))
    /\ calls = NoCalls
    /\ creators = NoCreators

ScenarioAdd == \E u \in Users, q \in ScenarioQuantities : PostProducts(u, ScenarioProduct, q)
ScenarioUpdate == \E u \in Users, q \in ScenarioQuantities : PutProduct(u, ScenarioProduct, q)
ScenarioPurchase == \E u \in Users, cid \in 1 .. (Len(carts) + 1) : PostPurchase(u, cid)
ScenarioRestock ==
    \E b \in [stock : 0 .. ScenarioStock] : PutAdminProduct(ScenarioProduct, b)

ScenarioNext == ScenarioAdd \/ ScenarioUpdate \/ ScenarioPurchase \/ ScenarioRestock

ScenarioSpec == ScenarioInit /\ [][ScenarioNext]_vars

(***************************************************************************)
(* Requests in flight.  Every await of a route or of a repository method  *)
(* is a step of its own, so that the steps of two requests interleave;    *)
(* a DAO or model call (one query, or a load and a save of one document)  *)
(* is one step.  calls[i].pc names the await the request is stopped at.   *)
(***************************************************************************)
Goto(i, pc) == [calls EXCEPT ![i].pc = pc]

Fail(i, pc, error) == [calls EXCEPT ![i].pc = pc, ![i].error = error]

\* POST /api/carts/products arrives with a body that passes the validation
\* of productId and quantity
AddArrive(i) ==
    /\ calls[i].pc = "idle"
    /\ \E u \in Users, p \in Products, q \in 1 .. MaxStock :
          calls' = [calls EXCEPT ![i] =
                      [IdleCall EXCEPT !.op = "addProduct", !.user = u,
                                       !.product = p, !.quantity = q,
                                       !.pc = "routeGetById"]]
    /\ UNCHANGED <<stock, price, carts, tickets, edits, last, creators>>

\* The route: product = await ProductRepository.getById(productId), then
\* product.stock < quantity answers 400 INSUFFICIENT_STOCK
AddRouteGetById(i) ==
    /\ calls[i].op = "addProduct" /\ calls[i].pc = "routeGetById"
    /\ calls' = IF stock[calls[i].product] < calls[i].quantity
                THEN Fail(i, "rejected", "INSUFFICIENT_STOCK")
                ELSE Goto(i, "getById")
    /\ UNCHANGED <<stock, price, carts, tickets, edits, last, creators>>

\* CartRepository.addProduct: product = await this.productRepo.getById(...),
\* whose price is the one the line will get
AddGetById(i) ==
    /\ calls[i].op = "addProduct" /\ calls[i].pc = "getById"
    /\ calls' = [calls EXCEPT ![i].price = price[calls[i].product],
                              ![i].pc = "hasStock"]
    /\ UNCHANGED <<stock, price, carts, tickets, edits, last, creators>>

\* await this.productRepo.hasStock(productId, quantity); seen is the
\* product.stock the call read
AddHasStock(i) ==
    /\ calls[i].op = "addProduct" /\ calls[i].pc = "hasStock"
    /\ calls' = IF hasStock(stock, calls[i].product, calls[i].quantity)
                THEN [calls EXCEPT ![i].seen = stock[calls[i].product],
                                   ![i].pc = "findActiveByUser"]
                ELSE [calls EXCEPT ![i].seen = stock[calls[i].product],
                                   ![i].pc = "failed",
                                   ![i].error = "Stock insuficiente"]
    /\ UNCHANGED <<stock, price, carts, tickets, edits, last, creators>>

\* The await a request with its cart in hand stops at next: the second
\* hasStock when the cart it loaded has a line for the product, else the
\* decrement
AfterCart(loaded, productId) ==
    IF FindLine(loaded, productId) # 0 THEN "hasStockTotal" ELSE "decrementStock"

\* cart = await this.dao.findActiveByUser(userId)
AddFindActiveByUser(i) ==
    /\ calls[i].op = "addProduct" /\ calls[i].pc = "findActiveByUser"
    /\ LET c == findActiveByUser(carts, calls[i].user)
       IN  calls' = IF c = 0 THEN Goto(i, "create")
                    ELSE [calls EXCEPT ![i].cart = c,
                                       ![i].loaded = carts[c].products,
                                       ![i].pc = AfterCart(carts[c].products,
                                                           calls[i].product)]
    /\ UNCHANGED <<stock, price, carts, tickets, edits, last, creators>>

\* cart = await this.dao.create({user, products: [], status: "active"}); a
\* rejection by the index is thrown to the catch block of the route
AddCreate(i) ==
    /\ calls[i].op = "addProduct" /\ calls[i].pc = "create"
    /\ LET r == createCart(carts, [user |-> calls[i].user, products |-> <<>>,
                                   status |-> "active"])
       IN  IF r.err # NoError
           THEN /\ calls' = Fail(i, "failed", r.err)
                /\ carts' = carts
           ELSE /\ calls' = [calls EXCEPT ![i].cart = Len(r.carts),
                                          ![i].loaded = <<>>,
                                          ![i].pc = "decrementStock"]
                /\ carts' = r.carts
    /\ UNCHANGED <<stock, price, tickets, edits, last, creators>>

\* await this.productRepo.hasStock(productId, existingItem.quantity + quantity)
AddHasStockTotal(i) ==
    /\ calls[i].op = "addProduct" /\ calls[i].pc = "hasStockTotal"
    /\ LET existingItem == calls[i].loaded[FindLine(calls[i].loaded, calls[i].product)]
           totalNeeded == existingItem.quantity + calls[i].quantity
       IN  calls' = IF hasStock(stock, calls[i].product, totalNeeded)
                    THEN [calls EXCEPT ![i].seen = stock[calls[i].product],
                                       ![i].pc = "decrementStock"]
                    ELSE [calls EXCEPT ![i].seen = stock[calls[i].product],
                                       ![i].pc = "failed",
                                       ![i].error =
                            "Stock insuficiente para la cantidad total solicitada"]
    /\ UNCHANGED <<stock, price, carts, tickets, edits, last, creators>>

\* await this.productRepo.decrementStock(productId, quantityNeeded)
AddDecrementStock(i) ==
    /\ calls[i].op = "addProduct" /\ calls[i].pc = "decrementStock"
    /\ stock' = decrementStock(stock, calls[i].product, calls[i].quantity)
    /\ calls' = Goto(i, "daoAddProduct")
    /\ UNCHANGED <<price, carts, tickets, edits, last, creators>>

\* await this.dao.addProduct(cartId, productId, quantity, product.price)
AddDaoAddProduct(i) ==
    /\ calls[i].op = "addProduct" /\ calls[i].pc = "daoAddProduct"
    /\ carts' = daoAddProduct(carts, calls[i].cart, calls[i].product,
                              calls[i].quantity, calls[i].price)
    /\ calls' = Goto(i, "findById")
    /\ UNCHANGED <<stock, price, tickets, edits, last, creators>>

\* await this.dao.findById(cartId, ["products.product"]) and the 200 response
AddFindById(i) ==
    /\ calls[i].op = "addProduct" /\ calls[i].pc = "findById"
    /\ calls' = Goto(i, "done")
    /\ UNCHANGED <<stock, price, carts, tickets, edits, last, creators>>

AddNext ==
    \E i \in Calls :
        \/ AddArrive(i)
        \/ AddRouteGetById(i)
        \/ AddGetById(i)
        \/ AddHasStock(i)
        \/ AddFindActiveByUser(i)
        \/ AddCreate(i)
        \/ AddHasStockTotal(i)
        \/ AddDecrementStock(i)
        \/ AddDaoAddProduct(i)
        \/ AddFindById(i)

\* Concurrent POST /api/carts/products requests on a fresh database
AddSpec == Init /\ [][AddNext]_vars

\* The user whose cart the concurrent removals act on
CartOwner == "u1"

\* A database in which CartOwner has added q1 units of p1 and then q2 units
\* of p2 (none when q2 = 0) to a fresh cart, and no request is in flight
ReturnInit ==
    \E q1 \in 1 .. InitialStock["p1"], q2 \in 0 .. InitialStock["p2"] :
        LET a == addProduct(InitialStock, InitialPrice, <<>>, CartOwner, "p1", q1)
            b == IF q2 = 0 THEN a
                 ELSE addProduct(a.stock, InitialPrice, a.carts, CartOwner, "p2", q2)
        IN  /\ stock = b.stock
            /\ price = InitialPrice
            /\ carts = b.carts
            /\ tickets = <<>>
            /\ edits = 0
            /\ last = Response("none", "none", Handled("OK", NoError, 0, stock, carts))
            /\ calls = NoCalls
            /\ creators = NoCreators

\* DELETE /api/carts/products/:productId arrives
RemoveArrive(i) ==
    /\ calls[i].pc = "idle"
    /\ \E u \in Users, p \in Products :
          calls' = [calls EXCEPT ![i] =
                      [IdleCall EXCEPT !.op = "removeProduct", !.user = u,
                                       !.product = p, !.pc = "getActiveByUser"]]
    /\ UNCHANGED <<stock, price, carts, tickets, edits, last, creators>>

\* DELETE /api/carts arrives
ClearArrive(i) ==
    /\ calls[i].pc = "idle"
    /\ \E u \in Users :
          calls' = [calls EXCEPT ![i] =
                      [IdleCall EXCEPT !.op = "clearCart", !.user = u,
                                       !.pc = "getActiveByUser"]]
    /\ UNCHANGED <<stock, price, carts, tickets, edits, last, creators>>

\* Both routes: cart = await CartRepository.getActiveByUser(req.user.id),
\* 404 CART_NOT_FOUND when there is none
ReturnGetActiveByUser(i) ==
    /\ calls[i].op \in {"removeProduct", "clearCart"}
    /\ calls[i].pc = "getActiveByUser"
    /\ LET c == findActiveByUser(carts, calls[i].user)
       IN  calls' = IF c = 0 THEN Fail(i, "rejected", "CART_NOT_FOUND")
                    ELSE [calls EXCEPT ![i].cart = c, ![i].pc = "findById"]
    /\ UNCHANGED <<stock, price, carts, tickets, edits, last, creators>>

\* removeProduct and clearCart: cart = await this.dao.findById(cartId).
\* removeProduct then looks for its item and skips the increment when there
\* is none; clearCart iterates over the products it loaded.
ReturnFindById(i) ==
    /\ calls[i].op \in {"removeProduct", "clearCart"}
    /\ calls[i].pc = "findById"
    /\ LET products == carts[calls[i].cart].products
           found == IF calls[i].op = "removeProduct"
                    THEN FindLine(products, calls[i].product) # 0
                    ELSE products # <<>>
           write == IF calls[i].op = "removeProduct" THEN "daoRemoveProduct"
                    ELSE "daoClearCart"
       IN  calls' = [calls EXCEPT ![i].loaded = products,
                                  ![i].pc = IF found THEN "incrementStock" ELSE write]
    /\ UNCHANGED <<stock, price, carts, tickets, edits, last, creators>>

\* removeProduct: await this.productRepo.incrementStock(productId, item.quantity)
RemoveIncrementStock(i) ==
    /\ calls[i].op = "removeProduct" /\ calls[i].pc = "incrementStock"
    /\ LET item == calls[i].loaded[FindLine(calls[i].loaded, calls[i].product)]
       IN  stock' = incrementStock(stock, calls[i].product, item.quantity)
    /\ calls' = Goto(i, "daoRemoveProduct")
    /\ UNCHANGED <<price, carts, tickets, edits, last, creators>>

\* clearCart: one turn of for (const item of cart.products) await
\* incrementStock(item.product, item.quantity); loaded keeps the items left
ClearIncrementStock(i) ==
    /\ calls[i].op = "clearCart" /\ calls[i].pc = "incrementStock"
    /\ LET item == Head(calls[i].loaded)
           rest == Tail(calls[i].loaded)
       IN  /\ stock' = incrementStock(stock, item.product, item.quantity)
           /\ calls' = [calls EXCEPT ![i].loaded = rest,
                                     ![i].pc = IF rest = <<>> THEN "daoClearCart"
                                               ELSE "incrementStock"]
    /\ UNCHANGED <<price, carts, tickets, edits, last, creators>>

\* removeProduct: await this.dao.removeProduct(cartId, productId) and the
\* 200 response
ReturnDaoRemoveProduct(i) ==
    /\ calls[i].op = "removeProduct" /\ calls[i].pc = "daoRemoveProduct"
    /\ carts' = daoRemoveProduct(carts, calls[i].cart, calls[i].product)
    /\ calls' = Goto(i, "done")
    /\ UNCHANGED <<stock, price, tickets, edits, last, creators>>

\* clearCart: await this.dao.clearCart(cartId) and the 200 response
ReturnDaoClearCart(i) ==
    /\ calls[i].op = "clearCart" /\ calls[i].pc = "daoClearCart"
    /\ carts' = daoClearCart(carts, calls[i].cart)
    /\ calls' = Goto(i, "done")
    /\ UNCHANGED <<stock, price, tickets, edits, last, creators>>

ReturnNext ==
    \E i \in Calls :
        \/ RemoveArrive(i)
        \/ ClearArrive(i)
        \/ ReturnGetActiveByUser(i)
        \/ ReturnFindById(i)
        \/ RemoveIncrementStock(i)
        \/ ClearIncrementStock(i)
        \/ ReturnDaoRemoveProduct(i)
        \/ ReturnDaoClearCart(i)

\* Concurrent DELETE requests on a cart that holds lines
ReturnSpec == ReturnInit /\ [][ReturnNext]_vars

(***************************************************************************)
(* Ticket creations in flight: TicketRepository.create, with the loop of  *)
(* Ticket.generateUniqueCode one step per await.                           *)
(***************************************************************************)
\* The codes `TICKET-${timestamp}-${random}` can come out as
CandidateCodes == 1 .. MaxCodes

codeExistsNever(tks, code) == FALSE

\* ticket = await this.findOne({ code }); exists = !!ticket
codeExists(tks, code) == code \in TicketCodesOf(tks)

DuplicateCodeNoIndex(tks, code) == FALSE

\* ticketSchema.code unique: true: would inserting a ticket with this code
\* break the index?
DuplicateCode(tks, code) == code \in TicketCodesOf(tks)

\* The purchase route calls TicketRepository.create(ticketData), here for a
\* purchase by u of one unit at the largest price; the code does not depend
\* on ticketData
CreateArrive(i) ==
    /\ creators[i].pc = "idle"
    /\ \E u \in Users :
          creators' = [creators EXCEPT ![i] =
                         [IdleCreator EXCEPT !.amount = MaxPrice,
                                             !.purchaser = UserEmail(u),
                                             !.cart = 1, !.pc = "generate"]]
    /\ UNCHANGED <<stock, price, carts, tickets, edits, last, calls>>

\* One turn of the loop up to its await: the candidate c is generated
Draw(i, c) ==
    /\ creators[i].pc = "generate"
    /\ creators' = [creators EXCEPT ![i].code = c, ![i].pc = "findOne"]
    /\ UNCHANGED <<stock, price, carts, tickets, edits, last, calls>>

Generate(i) == \E c \in CandidateCodes : Draw(i, c)

\* A turn of the loop that generates a code no ticket has
GenerateFresh(i) == \E c \in CandidateCodes \ TicketCodesOf(tickets) : Draw(i, c)

\* The look-up answers: while (exists) goes round again, or
\* generateUniqueCode returns the code to TicketRepository.create
FindOne(i) ==
    /\ creators[i].pc = "findOne"
    /\ creators' = [creators EXCEPT ![i].pc =
                        IF codeExists(tickets, creators[i].code)
                        THEN "generate" ELSE "create"]
    /\ UNCHANGED <<stock, price, carts, tickets, edits, last, calls>>

\* ticket = await this.dao.create({...ticketData, code}); a rejection by the
\* index on code is thrown to the catch block of the route
Persist(i) ==
    /\ creators[i].pc = "create"
    /\ IF DuplicateCode(tickets, creators[i].code)
       THEN /\ creators' = [creators EXCEPT ![i].pc = "failed"]
            /\ tickets' = tickets
       ELSE /\ creators' = [creators EXCEPT ![i].pc = "done"]
            /\ tickets' = createTicket(tickets, creators[i].code,
                                       [amount |-> creators[i].amount,
                                        purchaser |-> creators[i].purchaser,
                                        cart |-> creators[i].cart])
    /\ UNCHANGED <<stock, price, carts, edits, last, calls>>

TicketNext ==
    \E i \in Creators : CreateArrive(i) \/ Generate(i) \/ FindOne(i) \/ Persist(i)

\* Concurrent ticket creations on an empty tickets collection
TicketSpec == Init /\ [][TicketNext]_vars

\* The same, where every look-up is answered and a creation that keeps
\* generating codes generates, sooner or later, one that no ticket has
FairTicketSpec ==
    /\ Init
    /\ [][TicketNext]_vars
    /\ \A i \in Creators : WF_vars(FindOne(i)) /\ SF_vars(GenerateFresh(i))

Next == AddStep \/ UpdateStep \/ RemoveStep \/ ClearStep \/ PurchaseStep \/ AdminStep

Spec == Init /\ [][Next]_vars

(***************************************************************************)
(* Properties                                                              *)
(***************************************************************************)
CartOps == {"addProduct", "updateProductQuantity", "removeProduct", "clearCart"}

\* Quantity of product p in the lines of products
RECURSIVE QuantityOf(_, _)
QuantityOf(products, p) ==
    IF products = <<>> THEN 0
    ELSE (IF Head(products).product = p THEN Head(products).quantity ELSE 0)
         + QuantityOf(Tail(products), p)

\* Units of p held by the lines of the active carts among the first n carts
RECURSIVE ReservedUpTo(_, _, _)
ReservedUpTo(cts, n, p) ==
    IF n = 0 THEN 0
    ELSE (IF cts[n].status = "active" THEN QuantityOf(cts[n].products, p) ELSE 0)
         + ReservedUpTo(cts, n - 1, p)

Reserved(cts, p) == ReservedUpTo(cts, Len(cts), p)

\* C1 (CartSpec): after any sequence of completed addProduct,
\* updateProductQuantity, removeProduct and clearCart requests, each product's
\* stock plus the quantities of the active-cart lines referencing it equals the
\* product's stock before any cart activity.
C1_StockConservation ==
    \A p \in Products : stock[p] + Reserved(carts, p) = InitialStock[p]

\* A line was removed while both users still hold reserved units
C1_Witness ==
    /\ last.op = "removeProduct"
    /\ last.code = "OK"
    /\ \A u \in Users : \E c \in ActiveCartsOf(carts, u) : Len(carts[c].products) > 0
    /\ \E p \in Products : stock[p] > 0

\* C2: each user owns at most one active cart in every reachable state, and
\* the store rejects the creation of a second active cart for a user that
\* already has one.
C2_SingleActiveCart ==
    \A u \in Users :
        /\ Cardinality(ActiveCartsOf(carts, u)) <= 1
        /\ ActiveCartsOf(carts, u) # {} =>
              createCart(carts, [user |-> u, products |-> <<>>,
                                 status |-> "active"]).err = "DuplicateActiveCart"

\* A user with a completed cart and, after a later add, an active one
C2_Witness ==
    \E u \in Users :
        /\ ActiveCartsOf(carts, u) # {}
        /\ \E c \in CartIds(carts) : carts[c].user = u /\ carts[c].status = "completed"

\* C3: after every completed addProduct, updateProductQuantity, removeProduct
\* or clearCart the cart's stored totalPrice is the sum of quantity times
\* snapshot price over its lines, 0 for an empty cart.
C3_TotalConsistency ==
    (last.op \in CartOps /\ last.code = "OK") =>
        /\ carts[last.cart].totalPrice = LinesTotal(carts[last.cart].products)
        /\ carts[last.cart].products = <<>> => carts[last.cart].totalPrice = 0

\* A quantity update on a cart of two lines with a positive total
C3_Witness ==
    /\ last.op = "updateProductQuantity"
    /\ last.code = "OK"
    /\ Len(carts[last.cart].products) = 2
    /\ carts[last.cart].totalPrice > 0

\* The lines of products whose product is among those of the purchase lists
ProductsOf(list) == {list[k].product : k \in 1 .. Len(list)}

\* A purchase request that reached CartRepository.purchase and returned
PurchaseReturned(resp) == resp.op = "purchase" /\ resp.error = NoError

\* C4: after a purchase in which at least one line is unfulfillable, the
\* cart's persisted lines are exactly the processed lines and its stored
\* totalPrice is the sum of quantity times snapshot price over them, which is
\* the returned totalAmount.
C4_PartialPurchaseTotal ==
    (PurchaseReturned(last) /\ Len(last.productsNotProcessed) > 0) =>
        LET cart == carts[last.cart]
        IN  /\ Len(cart.products) = Len(last.productsProcessed)
            /\ \A k \in 1 .. Len(cart.products) :
                  /\ cart.products[k].product = last.productsProcessed[k].product
                  /\ cart.products[k].quantity = last.productsProcessed[k].quantity
                  /\ cart.products[k].price = last.productsProcessed[k].price
            /\ cart.totalPrice = LinesTotal(cart.products)
            /\ cart.totalPrice = last.totalAmount

\* C5: purchase partitions the cart's lines by the live stock at checkout: a
\* line is processed iff stock >= quantity, otherwise it is not processed with
\* requestedQuantity = quantity and availableStock = the live stock; every
\* line is in exactly one list and totalAmount is the sum of quantity times
\* snapshot price over the processed lines only.
C5_Partition ==
    [][PurchaseReturned(last') =>
        LET lines == carts[last'.cart].products
            done == last'.productsProcessed
            left == last'.productsNotProcessed
            Enough(item) == stock[item.product] >= item.quantity
        IN  /\ Len(done) + Len(left) = Len(lines)
            /\ ProductsOf(done) \cap ProductsOf(left) = {}
            /\ \A i \in 1 .. Len(lines) :
                  IF stock[lines[i].product] >= lines[i].quantity
                  THEN \E k \in 1 .. Len(done) :
                          /\ done[k].product = lines[i].product
                          /\ done[k].quantity = lines[i].quantity
                          /\ done[k].price = lines[i].price
                          /\ done[k].subtotal = lines[i].quantity * lines[i].price
                  ELSE \E k \in 1 .. Len(left) :
                          /\ left[k].product = lines[i].product
                          /\ left[k].requestedQuantity = lines[i].quantity
                          /\ left[k].availableStock = stock[lines[i].product]
            /\ last'.totalAmount = LinesTotal(SelectSeq(lines, Enough))]_vars

\* A purchase that returned one processed and one not-processed line
C5_Witness ==
    /\ PurchaseReturned(last)
    /\ Len(last.productsProcessed) = 1
    /\ Len(last.productsNotProcessed) = 1
    /\ last.totalAmount > 0

\* C6: purchase leaves the stock of every processed line's product unchanged,
\* raises the stock of every not-processed line's product by the line's full
\* quantity, and leaves the stock of products not in the cart unchanged.
C6_PurchaseStockEffect ==
    [][PurchaseReturned(last') =>
        LET lines == carts[last'.cart].products
        IN  \A p \in Products :
               LET i == FindLine(lines, p)
               IN  stock'[p] =
                      IF i # 0 /\ stock[p] < lines[i].quantity
                      THEN stock[p] + lines[i].quantity
                      ELSE stock[p]]_vars

\* A purchase returned with an unfulfillable line, a fulfillable line's
\* product and stock on hand
C6_Witness ==
    /\ PurchaseReturned(last)
    /\ Len(last.productsNotProcessed) > 0
    /\ Len(last.productsProcessed) > 0
    /\ \A p \in Products : stock[p] > 0

\* C7: the cart becomes completed iff every line was fulfillable; with an
\* unfulfillable line it stays active; purchase sets no other status.
C7_PurchaseStatus ==
    [][PurchaseReturned(last') =>
        LET before == carts[last'.cart].status
            after == carts'[last'.cart].status
        IN  /\ after = "completed" <=> Len(last'.productsNotProcessed) = 0
            /\ Len(last'.productsNotProcessed) > 0 => after = before /\ after = "active"
            /\ after \in {"active", "completed"}]_vars

\* One cart completed by a purchase, another left active by a partial one
C7_Witness ==
    /\ PurchaseReturned(last)
    /\ Len(last.productsNotProcessed) > 0
    /\ carts[last.cart].status = "active"
    /\ \E c \in CartIds(carts) : carts[c].status = "completed"

\* C8: a purchase request creates exactly one ticket if at least one line was
\* processed, with amount = totalAmount, purchaser = the caller's e-mail and
\* cart = the purchased cart; with zero lines processed it is reported as a
\* stock-insufficiency failure and the tickets are unchanged.
C8_TicketCreation ==
    [][PurchaseReturned(last') =>
        IF Len(last'.productsProcessed) >= 1
        THEN /\ last'.code = "OK"
             /\ Len(tickets') = Len(tickets) + 1
             /\ SubSeq(tickets', 1, Len(tickets)) = tickets
             /\ tickets'[Len(tickets')].amount = last'.totalAmount
             /\ tickets'[Len(tickets')].purchaser = UserEmail(last'.user)
             /\ tickets'[Len(tickets')].cart = last'.cart
             /\ carts[last'.cart].user = last'.user
        ELSE /\ last'.code = "INSUFFICIENT_STOCK"
             /\ tickets' = tickets]_vars

\* A ticket was created by a partial purchase of the user who registered with
\* an upper-case e-mail
C8_Witness ==
    /\ PurchaseReturned(last)
    /\ last.code = "OK"
    /\ Len(last.productsNotProcessed) > 0
    /\ last.user = "u1"
    /\ Len(tickets) = 1

\* The cart ids a request can name: those of the carts and one of no cart
RequestCartIds == 1 .. (Len(carts) + 1)

\* The error kind a purchase of cart cid must fail with, "none" if it may run
PurchasePrecondition(cts, cid) ==
    IF cid \notin CartIds(cts) THEN "CartNotFound"
    ELSE IF cts[cid].status # "active" THEN "CartNotActive"
    ELSE IF Len(cts[cid].products) = 0 THEN "CartEmpty"
    ELSE "none"

\* The response code the boundary gives for an error kind
BoundaryCode(kind) ==
    IF kind = "CartNotFound" THEN "CART_NOT_FOUND"
    ELSE IF kind = "CartNotActive" THEN "CART_NOT_ACTIVE"
    ELSE "EMPTY_CART"

\* The boundary's part of C9: the request of the cart's owner (of any user for
\* a missing cart) is rejected with the matching code and writes nothing
C9_BoundaryRejects ==
    \A cid \in RequestCartIds, u \in Users :
        LET kind == PurchasePrecondition(carts, cid)
            h == PostPurchaseHandler(stock, carts, u, cid)
        IN  (kind # "none" /\ (cid \in CartIds(carts) => carts[cid].user = u)) =>
                /\ h.code = BoundaryCode(kind)
                /\ h.stock = stock
                /\ h.carts = carts

\* The service's part of C9: CartRepository.purchase itself fails and writes
\* nothing
C9_ServiceRejects ==
    \A cid \in RequestCartIds :
        LET r == purchase(stock, carts, cid)
        IN  PurchasePrecondition(carts, cid) # "none" =>
                /\ r.err # NoError
                /\ r.stock = stock
                /\ r.carts = carts

\* C9: purchase of a cart id that does not exist fails with CartNotFound, of a
\* cart with no lines with CartEmpty, of a cart that is not active with
\* CartNotActive, changing no cart, stock or ticket; the purchase service
\* itself re-validates these conditions, not only the HTTP boundary.
C9_PurchasePreconditions == C9_BoundaryRejects /\ C9_ServiceRejects

\* C9 as amended: the HTTP boundary rejects the purchase of a missing, a
\* non-active and an empty cart with CART_NOT_FOUND, CART_NOT_ACTIVE and
\* EMPTY_CART and writes nothing; the purchase service re-validates only that
\* the cart exists.
C9_Amended ==
    /\ C9_BoundaryRejects
    /\ \A cid \in RequestCartIds :
          LET r == purchase(stock, carts, cid)
          IN  cid \notin CartIds(carts) =>
                  /\ r.err = "Carrito no encontrado"
                  /\ r.stock = stock
                  /\ r.carts = carts

\* A completed cart, an active cart emptied of its lines and a ticket
C9_Witness ==
    /\ \E c \in CartIds(carts) : carts[c].status = "completed"
    /\ \E c \in CartIds(carts) :
          carts[c].status = "active" /\ Len(carts[c].products) = 0
    /\ Len(tickets) > 0

C11_StockNeverNegative == \A p \in Products : stock[p] \in Nat

\* A quantity update took the last unit while no product has stock left
C11_Witness ==
    /\ last.op = "updateProductQuantity"
    /\ last.code = "OK"
    /\ \A p \in Products : stock[p] = 0

\* C12: the inventory decrement fails with InsufficientStock and leaves the
\* stock unchanged whenever the amount exceeds the product's current stock,
\* and reduces the stock by exactly the amount otherwise.
C12_DecrementGuard ==
    \A p \in Products, amount \in Quantities \ {0} :
        decrementStock(stock, p, amount) =
            IF amount > stock[p] THEN stock
            ELSE [stock EXCEPT ![p] = @ - amount]

\* The messages of the errors addProduct throws for lack of stock
InsufficientStockErrors ==
    {"Stock insuficiente", "Stock insuficiente para la cantidad total solicitada"}

\* Index of the line for product p in the active cart of user u, 0 if the
\* user has no active cart or the cart no such line
ActiveLine(cts, u, p) ==
    IF findActiveByUser(cts, u) = 0 THEN 0
    ELSE FindLine(cts[findActiveByUser(cts, u)].products, p)

C15_UpdateQuantity ==
    \A cid \in CartIds(carts), p \in ProductIds, q \in Quantities \ {0} :
        LET lines == carts[cid].products
            i == FindLine(lines, p)
            delta == q - lines[i].quantity
            r == updateProductQuantity(stock, carts, cid, p, q)
            h == PutProductHandler(stock, carts, carts[cid].user, p, q)
            routed == findActiveByUser(carts, carts[cid].user) = cid
        IN  IF i = 0
            THEN /\ r.err = "Producto no encontrado en el carrito"
                 /\ r.stock = stock /\ r.carts = carts
                 /\ routed => h.code = "PRODUCT_NOT_IN_CART"
            ELSE IF delta > 0 /\ delta > stock[p]
            THEN /\ r.err = "Stock insuficiente"
                 /\ r.stock = stock /\ r.carts = carts
                 /\ routed => h.code = "INSUFFICIENT_STOCK"
            ELSE /\ r.err = NoError
                 /\ r.stock = [stock EXCEPT ![p] = @ - delta]
                 /\ delta > 0 => r.stock[p] = stock[p] - delta
                 /\ delta < 0 => r.stock[p] = stock[p] + (-delta)
                 /\ delta = 0 => r.stock = stock
                 /\ r.carts[cid].products = [lines EXCEPT ![i].quantity = q]
                 /\ r.carts[cid].user = carts[cid].user
                 /\ r.carts[cid].status = carts[cid].status
                 /\ \A other \in CartIds(carts) \ {cid} : r.carts[other] = carts[other]
                 /\ Len(r.carts) = Len(carts)
                 /\ routed => h.code = "OK" /\ h.stock = r.stock /\ h.carts = r.carts

\* A quantity update left a cart of two lines, one of one unit and one of two,
\* while the other user's cart holds a line too
C15_Witness ==
    /\ last.op = "updateProductQuantity"
    /\ last.code = "OK"
    /\ Len(carts[last.cart].products) = 2
    /\ \E i, j \in 1 .. 2 :
          /\ carts[last.cart].products[i].quantity = 1
          /\ carts[last.cart].products[j].quantity = 2
    /\ \E c \in CartIds(carts) : c # last.cart /\ Len(carts[c].products) > 0

\* C16 (CartSpec): removeProduct for a product that is not a line of the cart
\* fails with LineNotFound and changes nothing; for a product that is a line
\* it increments the product's stock by the line's full quantity and deletes
\* the line.
C16_RemoveProduct ==
    \A cid \in CartIds(carts), p \in ProductIds :
        LET lines == carts[cid].products
            i == FindLine(lines, p)
            r == removeProduct(stock, carts, cid, p)
            h == DeleteProductHandler(stock, carts, carts[cid].user, p)
        IN  IF i = 0
            THEN /\ r.err = "Producto no encontrado en el carrito"
                 /\ r.stock = stock /\ r.carts = carts
                 /\ h.code = "PRODUCT_NOT_IN_CART"
            ELSE /\ r.err = NoError
                 /\ r.stock = [stock EXCEPT ![p] = @ + lines[i].quantity]
                 /\ FindLine(r.carts[cid].products, p) = 0
                 /\ Len(r.carts[cid].products) = Len(lines) - 1

\* The lines and the stored total of user u's active cart, those of an empty
\* cart if the user has none
ActiveLines(cts, u) ==
    IF findActiveByUser(cts, u) = 0 THEN <<>>
    ELSE cts[findActiveByUser(cts, u)].products

ActiveTotal(cts, u) ==
    IF findActiveByUser(cts, u) = 0 THEN 0
    ELSE cts[findActiveByUser(cts, u)].totalPrice

C18_ClearCart ==
    \A cid \in CartIds(carts) :
        LET r == clearCart(stock, carts, cid)
            h == DeleteCartHandler(stock, carts, carts[cid].user)
        IN  /\ r.err = NoError
            /\ \A p \in Products :
                  r.stock[p] = stock[p] + QuantityOf(carts[cid].products, p)
            /\ Len(r.carts) = Len(carts)
            /\ r.carts[cid].products = <<>>
            /\ r.carts[cid].totalPrice = 0
            /\ r.carts[cid].status = carts[cid].status
            /\ r.carts[cid].user = carts[cid].user
            /\ \A other \in CartIds(carts) \ {cid} : r.carts[other] = carts[other]
            /\ carts[cid].status = "active" =>
                  /\ h.code = "OK"
                  /\ h.cart = cid
                  /\ h.stock = r.stock
                  /\ h.carts = r.carts
                  /\ h.carts[cid].status = "active"

\* A cart was just cleared and is empty with total 0 while the other user's
\* cart holds two lines
C18_Witness ==
    /\ last.op = "clearCart"
    /\ last.code = "OK"
    /\ carts[last.cart].products = <<>>
    /\ carts[last.cart].totalPrice = 0
    /\ carts[last.cart].status = "active"
    /\ \E c \in CartIds(carts) : c # last.cart /\ Len(carts[c].products) = 2

\* The lines of cart c, none if there is no such cart
LinesOf(cts, c) == IF c \in CartIds(cts) THEN cts[c].products ELSE <<>>

\* C19 (CatalogSpec): a line's unit price is the product's price at the
\* moment the line was first added; a later addProduct on the same product
\* increases the line's quantity without changing its stored price, and a
\* later change of the product's price by catalog management changes neither
\* the line's price nor the cart's totalPrice.
C19_PriceSnapshot ==
    [][/\ \A c \in CartIds(carts'), p \in Products :
             LET i == FindLine(LinesOf(carts, c), p)
                 j == FindLine(carts'[c].products, p)
             IN  j # 0 =>
                    IF i = 0
                    THEN carts'[c].products[j].price = price[p]
                    ELSE carts'[c].products[j].price = carts[c].products[i].price
       /\ (last'.op = "addProduct" /\ last'.code = "OK") =>
             \A p \in Products :
                LET i == FindLine(LinesOf(carts, last'.cart), p)
                    j == FindLine(carts'[last'.cart].products, p)
                IN  i # 0 =>
                       /\ j # 0
                       /\ carts'[last'.cart].products[j].quantity >=
                              carts[last'.cart].products[i].quantity
       /\ price' # price => carts' = carts]_vars

\* After a restock at a new price, a second add raised the only line of the
\* only cart to two units, and the line's price is not the product's price
C19_Witness ==
    /\ last.op = "addProduct"
    /\ last.code = "OK"
    /\ Len(carts) = 1
    /\ Len(carts[1].products) = 1
    /\ carts[1].products[1].quantity = 2
    /\ carts[1].products[1].price # price[carts[1].products[1].product]
    /\ carts[1].totalPrice = 2 * carts[1].products[1].price

\* C20: addProduct creates a new active cart only when the user has no active
\* cart, and then it does; a cart moves from active to completed only through
\* a purchase in which every line is fulfilled; once a cart is completed its
\* lines, total and status never change again, and the user's next addProduct
\* creates a fresh active cart.  No cart is deleted or changes owner.
C20_CartLifecycle ==
    [][/\ Len(carts') >= Len(carts)
       /\ Len(carts') > Len(carts) =>
             /\ last'.op = "addProduct"
             /\ Len(carts') = Len(carts) + 1
             /\ ActiveCartsOf(carts, last'.user) = {}
             /\ last'.cart = Len(carts')
             /\ carts'[Len(carts')].user = last'.user
             /\ carts'[Len(carts')].status = "active"
       /\ (last'.op = "addProduct" /\ last'.code = "OK"
               /\ ActiveCartsOf(carts, last'.user) = {}) =>
             Len(carts') = Len(carts) + 1
       /\ \A c \in CartIds(carts) :
             /\ carts[c].status = "completed" => carts'[c] = carts[c]
             /\ (carts[c].status = "active" /\ carts'[c].status = "completed") =>
                    /\ PurchaseReturned(last')
                    /\ last'.cart = c
                    /\ Len(last'.productsNotProcessed) = 0
                    /\ Len(last'.productsProcessed) = Len(carts[c].products)
             /\ carts'[c].status \in {"active", "completed"}
             /\ carts'[c].user = carts[c].user]_vars

\* The user whose first cart was completed by a purchase has just added a
\* product and holds it in a second, active cart
C20_Witness ==
    /\ last.op = "addProduct"
    /\ last.code = "OK"
    /\ last.cart = 2
    /\ carts[1].status = "completed"
    /\ carts[1].user = last.user
    /\ Len(carts[1].products) > 0
    /\ carts[2].user = last.user
    /\ carts[2].status = "active"
    /\ Len(carts[2].products) > 0

\* C21: once a purchase has placed a line in the processed set and a ticket
\* was created for it, no later request by any user returns that line's
\* quantity to the product's stock.  Stated of the request that follows the
\* purchase: if it takes units off a processed line of the purchased cart,
\* the product's stock does not rise.
C21_CheckoutConsumesStock ==
    [][(PurchaseReturned(last) /\ last.code = "OK") =>
          \A k \in 1 .. Len(last.productsProcessed) :
             LET p == last.productsProcessed[k].product
             IN  QuantityOf(carts'[last.cart].products, p)
                     < QuantityOf(carts[last.cart].products, p)
                 => stock'[p] <= stock[p]]_vars

\* C23 (ScenarioSpec): product P with stock 5 and price 10, user with no
\* cart.  addProduct(P, 3) gives cart total 30 and P.stock 2;
\* updateProductQuantity to 1 gives cart total 10 and P.stock 4; purchase then
\* creates a ticket with amount 10, sets the cart status to completed and
\* leaves P.stock at 4.  (3 is ScenarioStock - 2, 4 is ScenarioStock - 1.)
C23_Scenario ==
    \A u \in Users :
        LET P == ScenarioProduct
            a == PostProductsHandler(stock, price, carts, u, P, ScenarioStock - 2)
            b == PutProductHandler(a.stock, a.carts, u, P, 1)
            c == PostPurchaseHandler(b.stock, b.carts, u, a.cart)
        IN  (/\ findActiveByUser(carts, u) = 0
             /\ stock[P] = ScenarioStock
             /\ price[P] = ScenarioPrice) =>
               /\ a.code = "OK"
               /\ a.cart = Len(carts) + 1
               /\ a.carts[a.cart].totalPrice = (ScenarioStock - 2) * ScenarioPrice
               /\ a.stock[P] = 2
               /\ b.code = "OK"
               /\ b.carts[a.cart].totalPrice = ScenarioPrice
               /\ b.stock[P] = ScenarioStock - 1
               /\ c.code = "OK"
               /\ c.totalAmount = ScenarioPrice
               /\ \A code \in generateUniqueCode(tickets) :
                     LET made == createTicket(tickets, code,
                                     [amount |-> c.totalAmount,
                                      purchaser |-> UserEmail(u), cart |-> a.cart])
                     IN  /\ Len(made) = Len(tickets) + 1
                         /\ made[Len(made)].amount = ScenarioPrice
               /\ c.carts[a.cart].status = "completed"
               /\ c.stock[P] = ScenarioStock - 1

\* The scenario has run: one completed cart with one unit of P, its ticket of
\* the price of one unit, and all but one unit of P in stock
C23_Witness ==
    /\ last.op = "purchase"
    /\ last.code = "OK"
    /\ edits = 0
    /\ Len(carts) = 1
    /\ carts[1].status = "completed"
    /\ Len(carts[1].products) = 1
    /\ carts[1].products[1].quantity = 1
    /\ carts[1].totalPrice = ScenarioPrice
    /\ Len(tickets) = 1
    /\ tickets[1].amount = ScenarioPrice
    /\ stock[ScenarioProduct] = ScenarioStock - 1

C28_NoLineBilledTwice ==
    (PurchaseReturned(last) /\ last.code = "OK") =>
        LET again == PostPurchaseHandler(stock, carts, last.user, last.cart)
        IN  again.code = "OK" =>
              \A i \in 1 .. Len(again.productsProcessed),
                 j \in 1 .. Len(last.productsProcessed) :
                  again.productsProcessed[i].product
                      # last.productsProcessed[j].product

\* C30 (Spec): cart isolation between users.  A purchase request for a cart
\* of another user is answered FORBIDDEN and leaves carts and stock as they
\* are (and, not being OK, creates no ticket); and every step that changes
\* the lines, total or status of a cart is a request of the cart's owner.
C30_CartIsolation ==
    /\ [](\A u \in Users, cid \in CartIds(carts) :
            carts[cid].user # u =>
               LET h == PostPurchaseHandler(stock, carts, u, cid)
               IN  /\ h.code = "FORBIDDEN"
                   /\ h.carts = carts
                   /\ h.stock = stock)
    /\ [][\A cid \in CartIds(carts) :
            carts'[cid] # carts[cid] => last'.user = carts[cid].user]_vars

\* A user has just changed their own cart (update, remove or clear) while
\* another user's cart holds lines
C30_Witness ==
    /\ last.op \in {"updateProductQuantity", "removeProduct", "clearCart"}
    /\ last.code = "OK"
    /\ \E cid \in CartIds(carts) :
          /\ carts[cid].user # last.user
          /\ carts[cid].status = "active"
          /\ Len(carts[cid].products) > 0

\* The positions of an addProduct request between its stock check and its
\* decrement, and those after its decrement
CheckedPcs == {"findActiveByUser", "create", "hasStockTotal", "decrementStock"}
DecrementedPcs == {"daoAddProduct", "findById", "done"}

\* C25 (AddSpec): check-then-decrement race.  Every addProduct request that
\* is between its stock check and its decrement read a stock that covered its
\* quantity, and a decrement that leaves the stock below zero is the
\* decrement of a request whose check passed before another request for the
\* same product decremented: the stock has dropped below what the check read.
\* The witness is the reachable state the claim describes.
C25_CheckThenDecrementRace ==
    /\ [](\A i \in Calls :
            calls[i].pc \in CheckedPcs => calls[i].seen >= calls[i].quantity)
    /\ [][\A i \in Calls :
            (/\ calls[i].pc = "decrementStock"
             /\ calls'[i].pc = "daoAddProduct"
             /\ stock'[calls[i].product] < 0
             /\ stock[calls[i].product] >= 0) =>
               /\ stock[calls[i].product] < calls[i].seen
               /\ \E j \in Calls \ {i} :
                     /\ calls[j].product = calls[i].product
                     /\ calls[j].pc \in DecrementedPcs]_vars

\* Both requests have finished, more units of a product are reserved in carts
\* than were in stock, and its stock is below zero
C25_Witness ==
    /\ \A i \in Calls : calls[i].pc = "done"
    /\ \E p \in Products :
          /\ stock[p] < 0
          /\ Reserved(carts, p) > InitialStock[p]
          /\ \E i, j \in Calls : i # j /\ calls[i].product = p /\ calls[j].product = p

\* Units of p that requests in flight have taken from the stock and not yet
\* written to a cart, among the first n request slots
RECURSIVE PendingUpTo(_, _)
PendingUpTo(n, p) ==
    IF n = 0 THEN 0
    ELSE (IF calls[n].pc = "daoAddProduct" /\ calls[n].product = p
          THEN calls[n].quantity ELSE 0) + PendingUpTo(n - 1, p)

\* C27 (AddSpec): concurrent first add by one user.  However the addProduct
\* requests interleave, a user has at most one active cart; a request whose
\* cart creation the uniqueness constraint rejected ends failed with that
\* error; and no request has decremented stock without having created or
\* found its cart: the stock taken equals the units in cart lines plus the
\* units of the requests stopped between their decrement and their cart write.
C27_ConcurrentFirstAdd ==
    /\ \A u \in Users : Cardinality(ActiveCartsOf(carts, u)) <= 1
    /\ \A i \in Calls :
          calls[i].error = "DuplicateActiveCart" =>
             calls[i].pc = "failed" /\ calls[i].cart = 0
    /\ \A i \in Calls :
          calls[i].pc \in {"create", "findActiveByUser"} => calls[i].cart = 0
    /\ \A p \in Products :
          stock[p] + Reserved(carts, p) + PendingUpTo(MaxCalls, p) = InitialStock[p]

\* Two requests of one user both went to create a cart: one was rejected by
\* the index and took no stock, the other finished with the user's only cart
C27_Witness ==
    \E i, j \in Calls :
        /\ i # j
        /\ calls[i].user = calls[j].user
        /\ calls[i].error = "DuplicateActiveCart"
        /\ calls[j].pc = "done"
        /\ Cardinality(ActiveCartsOf(carts, calls[j].user)) = 1
        /\ stock = decrementStock(InitialStock, calls[j].product, calls[j].quantity)

\* The positions at which a request has answered
FinishedPcs == {"idle", "done", "rejected", "failed"}

\* C29 (ReturnSpec): stock is returned at most once per line under
\* concurrency.  When the removeProduct and clearCart requests in flight have
\* all finished, each product's stock plus its reserved quantities equals
\* its initial stock.
C29_ReturnedOnce ==
    (\A i \in Calls : calls[i].pc \in FinishedPcs) =>
        \A p \in Products : stock[p] + Reserved(carts, p) = InitialStock[p]

\* C22 (TicketSpec): ticket code uniqueness.  No two persisted tickets have
\* the same code, however the generate, look-up and persist steps of the
\* ticket creations interleave.
C22_TicketCodeUniqueness ==
    \A a, b \in 1 .. Len(tickets) : a # b => tickets[a].code # tickets[b].code

\* Two creations passed their look-ups with the same code: one persisted its
\* ticket, the insert of the other was rejected
C22_Witness ==
    \E i, j \in Creators :
        /\ i # j
        /\ creators[i].pc = "done"
        /\ creators[j].pc = "failed"
        /\ creators[i].code = creators[j].code
        /\ creators[i].code \in TicketCodesOf(tickets)

\* C26 (FairTicketSpec): ticket code generation terminates.
\* generateUniqueCode returns only from a look-up that found no ticket with
\* the candidate, and it returns that candidate; a look-up that finds the
\* candidate sends the loop round again; and, a fresh candidate being drawn
\* sooner or later, a generation in progress eventually returns.
C26_GenerationTerminates ==
    /\ [][\A i \in Creators :
            (creators[i].pc = "findOne" /\ creators'[i].pc = "create") =>
               /\ creators[i].code \notin TicketCodesOf(tickets)
               /\ creators'[i].code = creators[i].code]_vars
    /\ [][\A i \in Creators :
            (/\ creators[i].pc = "findOne"
             /\ creators[i].code \in TicketCodesOf(tickets)
             /\ creators'[i] # creators[i]) => creators'[i].pc = "generate"]_vars
    /\ [][\A i \in Creators :
            creators'[i].pc = "create" => creators[i].pc \in {"findOne", "create"}]_vars
    /\ \A i \in Creators :
          (creators[i].pc \in {"generate", "findOne"}) ~> (creators[i].pc = "create")

\* A generation whose candidate was the code of the ticket another creation
\* has persisted is going round the loop again
C26_Witness ==
    \E i, j \in Creators :
        /\ i # j
        /\ creators[i].pc = "generate"
        /\ creators[i].code \in TicketCodesOf(tickets)
        /\ creators[j].pc = "done"
        /\ creators[j].code = creators[i].code

====
